---- MODULE Spec2Model ----
(***************************************************************************)
(* Gated-FIFO sort controller of kh4i-dev/qr_scan.                         *)
(*                                                                         *)
(* Threads modelled: the sensor monitor (SensorMon), the recognition       *)
(* ingester (QRScannerLogic), the sort executor's worker tasks, one        *)
(* control-plane request thread (reset_maintenance, queue reset), the      *)
(* physical world driving the sensor pins and failing GPIO calls, the wall *)
(* clock and stop().                                                       *)
(* Further specifications add the reset_count and update_config requests   *)
(* (CommandSpec), run the line longer without stop() and requests          *)
(* (TrafficSpec, CountSpec) and drive QueueManager alone (QueueSpec);       *)
(* later ones let the camera show an unknown code (IngestSpec), race a     *)
(* queue reset with the monitor (RaceSpec) and add stop() to the item      *)
(* traffic (StopSpec).                                                     *)
(* A step of a thread is the code between two points at which another      *)
(* thread can observe or change the shared objects it touches.             *)
(*                                                                         *)
(* Python indices are kept 0-based as in the source; the TLA+ sequence     *)
(* lanes holds lane index i at position i + 1.                             *)
(***************************************************************************)
EXTENDS Integers, Sequences, FiniteSets, TLC

(***************************************************************************)
(* Bounds of the model                                                     *)
(***************************************************************************)
MaxSensorEvents == 2   \* most level changes the world makes on sensor pins
MaxScans == 2          \* most frames the detector decodes
MaxRequests == 1       \* most requests the control plane receives
MaxFailures == 2       \* most GPIO calls that raise
MaxTime == 3           \* last instant of the wall clock

(***************************************************************************)
(* Program constants                                                       *)
(***************************************************************************)
NONE == -1                 \* Python None for a pin
HIGH == 1
LOW == 0
ACTIVE_LOW == TRUE
PIN_ENTRY == 6
\* times are scaled: the tests are the code's strict comparisons and only the
\* order of the values matters (debounce <= repeat window <= head timeout);
\* a timer set at instant t has expired from instant t + 2 on
StartTime == 2             \* time.time() at start(): above every timer
sensor_debounce == 1       \* timing_config['sensor_debounce'] (0.1 s)
queue_head_timeout == 1    \* timing_config['queue_head_timeout'] (15 s)
DedupWindow == 1           \* the scanner's repeat window (3 s)

\* DEFAULT_LANES_CFG restricted to one sorting lane and the pass-through lane
LanesCfg ==
    << [id |-> "A", sensor_pin |-> 3, push_pin |-> 17, pull_pin |-> 27],
       [id |-> "D", sensor_pin |-> 5, push_pin |-> NONE, pull_pin |-> NONE] >>

SensorPins == {PIN_ENTRY} \cup {LanesCfg[k].sensor_pin : k \in 1..Len(LanesCfg)}
RelayPins ==
    ({LanesCfg[k].push_pin : k \in 1..Len(LanesCfg)}
        \cup {LanesCfg[k].pull_pin : k \in 1..Len(LanesCfg)}) \ {NONE}
AllPins == SensorPins \cup RelayPins

\* strings the detector can decode from a frame
RawCodes == {"a", "LO-D"}

VARIABLES
    main_running,            \* SortingSystem.main_running (threading.Event)
    maintenance_mode,        \* ErrorHandler.maintenance_mode
    last_error,              \* ErrorHandler.last_error
    auto_test_enabled,       \* SortingSystem.auto_test_enabled
    lanes,                   \* SystemState.state['lanes']
    queue_indices,           \* SystemState.state['queue_indices']
    qr_queue,                \* QueueManager.qr_queue
    entry_queue,             \* QueueManager.entry_queue
    pin_states,              \* the GPIO provider's pin levels
    clock,                   \* time.time()
    mon_pc, mon_i, mon_item,                     \* SensorMon locals
    last_s_state, last_s_trig, last_entry_trigger_time,
    qr_pc, last_qr_key, last_time,               \* QRScannerLogic and QRScanner
    tasks,                   \* the executor's worker tasks
    api_pc,                  \* the control-plane request in progress
    failures,                \* GPIO calls that raised so far
    sensor_events,           \* level changes made on sensor pins so far
    scans,                   \* frames decoded so far
    requests,                \* control-plane requests received so far
    api_response,            \* answer of the request that ended in the last step
    ws_event,                \* maintenance broadcast made by the last step
    relay_calls              \* relay_on / relay_off calls made by the last step

vars == << main_running, maintenance_mode, last_error, auto_test_enabled, lanes,
           queue_indices, qr_queue, entry_queue, pin_states, clock,
           mon_pc, mon_i, mon_item, last_s_state, last_s_trig,
           last_entry_trigger_time, qr_pc, last_qr_key, last_time, tasks,
           api_pc, failures, sensor_events, scans, requests,
           api_response, ws_event, relay_calls >>

(***************************************************************************)
(* SystemState                                                             *)
(***************************************************************************)
\* SystemState.state_lock is a threading.Lock (not re-entrant).
\* route_update_config takes it and, still holding it, calls
\* update_lanes_config (a lanes list was posted) or get_config_snapshot (none
\* was), both of which start by taking it again: the handler waits there
\* for ever with the lock held.  A step of another thread that needs the
\* lock is not taken while it is held: the thread waits at the acquisition
state_lock_held == api_pc = "uc_state_lock"

\* SystemState._initialize_lanes
initialize_lanes(lanes_cfg) ==
    [k \in 1..Len(lanes_cfg) |->
        [id |-> lanes_cfg[k].id,
         status |-> "Ready", count |-> 0,
         sensor_pin |-> lanes_cfg[k].sensor_pin,
         push_pin |-> lanes_cfg[k].push_pin,
         pull_pin |-> lanes_cfg[k].pull_pin,
         sensor_reading |-> 1, relay_grab |-> 0, relay_push |-> 0]]

\* SystemState.get_lane_info: a one-element sequence, or <<>> for None
get_lane_info(ls, index) ==
    IF 0 <= index /\ index < Len(ls) THEN << ls[index + 1] >> ELSE << >>

\* variant of update_lane_status that replaces the runtime status as well
update_lane_status_resets(ls, index, updates) ==
    IF 0 <= index /\ index < Len(ls)
    THEN [ls EXCEPT ![index + 1] =
            [f \in DOMAIN @ \cup DOMAIN updates |->
                IF f \in DOMAIN updates THEN updates[f]
                ELSE IF f = "status" THEN "Ready" ELSE @[f]]]
    ELSE ls

\* SystemState.update_lane_status: dict.update on the lane, if it exists
update_lane_status(ls, index, updates) ==
    IF 0 <= index /\ index < Len(ls)
    THEN [ls EXCEPT ![index + 1] =
            [f \in DOMAIN @ \cup DOMAIN updates |->
                IF f \in DOMAIN updates THEN updates[f] ELSE @[f]]]
    ELSE ls

(***************************************************************************)
(* ErrorHandler                                                            *)
(***************************************************************************)
\* variant of trigger_maintenance that recovers when called while active
trigger_maintenance_toggles(mode, err, message) ==
    IF mode
    THEN [maintenance_mode |-> FALSE, last_error |-> "None", broadcast |-> "off"]
    ELSE [maintenance_mode |-> TRUE, last_error |-> message, broadcast |-> "on"]

\* variant of trigger_maintenance that keeps the latest reason
trigger_maintenance_overwrites(mode, err, message) ==
    IF mode
    THEN [maintenance_mode |-> mode, last_error |-> message, broadcast |-> "none"]
    ELSE [maintenance_mode |-> TRUE, last_error |-> message, broadcast |-> "on"]

\* ErrorHandler.trigger_maintenance; broadcast counts _broadcast_maintenance_status
trigger_maintenance(mode, err, message) ==
    IF mode
    THEN [maintenance_mode |-> mode, last_error |-> err, broadcast |-> "none"]
    ELSE [maintenance_mode |-> TRUE, last_error |-> message, broadcast |-> "on"]

\* ErrorHandler.reset
reset(mode, err) ==
    IF ~mode
    THEN [maintenance_mode |-> mode, last_error |-> err, broadcast |-> "none"]
    ELSE [maintenance_mode |-> FALSE, last_error |-> "None", broadcast |-> "off"]

\* ErrorHandler.is_maintenance
is_maintenance == maintenance_mode

(***************************************************************************)
(* QueueManager                                                            *)
(***************************************************************************)
\* variant of _update_state_indices that lists the queue from the back
update_state_indices_reversed(q) == [k \in 1..Len(q) |-> q[Len(q) + 1 - k].lane_index]

\* QueueManager._update_state_indices
update_state_indices(q) == [k \in 1..Len(q) |-> q[k].lane_index]

\* variant of add_qr_item that stores the 1-based position of the lane
add_qr_item_one_based(q, item) ==
    Append(q, [item EXCEPT !.lane_index = @ + 1])

\* QueueManager.add_qr_item
add_qr_item(q, item) == Append(q, item)

\* variant of add_qr_item_at_head that returns the item to the back
add_qr_item_at_tail(q, item) == q \o << item >>

\* variant of add_qr_item_at_head that inserts behind the head
add_qr_item_behind_head(q, item) ==
    IF q = << >> THEN << item >> ELSE << q[1], item >> \o Tail(q)

\* QueueManager.add_qr_item_at_head
add_qr_item_at_head(q, item) == << item >> \o q

RemoveAt(q, k) == SubSeq(q, 1, k - 1) \o SubSeq(q, k + 1, Len(q))

\* variant of pop_qr_by_index that takes the last item of the lane
pop_qr_last(q, lane_index) ==
    LET hits == {k \in 1..Len(q) : q[k].lane_index = lane_index}
    IN  IF hits = {}
        THEN [item |-> << >>, queue |-> q]
        ELSE LET found == CHOOSE k \in hits : \A j \in hits : j <= k
             IN  [item |-> << q[found] >>, queue |-> RemoveAt(q, found)]

\* variant of pop_qr_by_index that takes the head whatever its lane
pop_qr_head(q, lane_index) ==
    IF q = << >> THEN [item |-> << >>, queue |-> q]
                 ELSE [item |-> << q[1] >>, queue |-> Tail(q)]

\* variant of pop_qr_by_index that falls back on the head of the queue
pop_qr_or_head(q, lane_index) ==
    LET hits == {k \in 1..Len(q) : q[k].lane_index = lane_index}
    IN  IF q = << >>
        THEN [item |-> << >>, queue |-> q]
        ELSE LET found == IF hits = {} THEN 1
                          ELSE CHOOSE k \in hits : \A j \in hits : k <= j
             IN  [item |-> << q[found] >>, queue |-> RemoveAt(q, found)]

\* QueueManager.pop_qr_by_index: the first item of the lane, or nothing
pop_qr_by_index(q, lane_index) ==
    LET hits == {k \in 1..Len(q) : q[k].lane_index = lane_index}
    IN  IF hits = {}
        THEN [item |-> << >>, queue |-> q]
        ELSE LET found == CHOOSE k \in hits : \A j \in hits : k <= j
             IN  [item |-> << q[found] >>, queue |-> RemoveAt(q, found)]

\* variant of check_qr_timeout that drops the head from age = timeout on
check_qr_timeout_at(q, timeout, now) ==
    IF q # << >> /\ (now - q[1].timestamp) >= timeout
    THEN [item |-> << q[1] >>, queue |-> Tail(q)]
    ELSE [item |-> << >>, queue |-> q]

\* QueueManager.check_qr_timeout at time now
check_qr_timeout(q, timeout, now) ==
    IF q # << >> /\ (now - q[1].timestamp) > timeout
    THEN [item |-> << q[1] >>, queue |-> Tail(q)]
    ELSE [item |-> << >>, queue |-> q]

\* QueueManager.add_entry_token
add_entry_token(e) == Append(e, TRUE)

\* variant of consume_entry_token that reports a token and leaves it queued
consume_entry_token_keeps(e) ==
    IF e # << >> THEN [ok |-> TRUE, queue |-> e]
                 ELSE [ok |-> FALSE, queue |-> e]

\* variant of consume_entry_token that takes every token at once
consume_entry_token_all(e) ==
    IF e # << >> THEN [ok |-> TRUE, queue |-> << >>]
                 ELSE [ok |-> FALSE, queue |-> e]

\* QueueManager.consume_entry_token
consume_entry_token(e) ==
    IF e # << >> THEN [ok |-> TRUE, queue |-> Tail(e)]
                 ELSE [ok |-> FALSE, queue |-> e]

\* QueueManager.is_entry_queue_empty
is_entry_queue_empty(e) == e = << >>

\* QueueManager.get_entry_queue_length
get_entry_queue_length(e) == Len(e)

(***************************************************************************)
(* GPIOHandler                                                             *)
(***************************************************************************)
\* level written by relay_on / relay_off
relay_level(op) ==
    IF op = "on" THEN (IF ACTIVE_LOW THEN LOW ELSE HIGH)
                 ELSE (IF ACTIVE_LOW THEN HIGH ELSE LOW)

\* GPIOHandler.relay_on / relay_off on the provider: ok is whether
\* gpio.output returned without raising
relay_write(ps, op, pin, ok) ==
    IF pin = NONE \/ ~ok THEN ps ELSE [ps EXCEPT ![pin] = relay_level(op)]

\* the record of one relay call, with the maintenance flag at the call
relay_call(op, pin, mode) ==
    IF pin = NONE THEN << >>
    ELSE << [op |-> op, pin |-> pin, maintenance |-> mode] >>

\* GPIOHandler.read_sensor: HIGH when the pin is None or the read raised
read_sensor(ps, pin, ok) ==
    IF pin = NONE \/ ~ok THEN HIGH ELSE ps[pin]

(***************************************************************************)
(* State after construction, load_config, setup_pins and                   *)
(* _initialize_sensor_states, with the threads of start() launched.        *)
(* This is the state start() is written to produce: load_config is taken   *)
(* to have returned.  Its own acquisition of state_lock is nested like the *)
(* one of route_update_config, which the properties on the lock discipline *)
(* examine on the running system.                                          *)
(***************************************************************************)
Boot ==
    /\ main_running = TRUE
    /\ maintenance_mode = FALSE
    /\ last_error = "None"
    /\ auto_test_enabled = FALSE
    /\ lanes = initialize_lanes(LanesCfg)
    /\ queue_indices = << >>
    /\ qr_queue = << >>
    /\ entry_queue = << >>
    /\ pin_states = [p \in AllPins |->
            IF p \in {LanesCfg[k].pull_pin : k \in 1..Len(LanesCfg)}
            THEN relay_level("on")
            ELSE HIGH]
    /\ clock = StartTime
    /\ mon_pc = "check" /\ mon_i = 0 /\ mon_item = << >>
    /\ last_s_state = [k \in 1..Len(LanesCfg) |-> 1]
    /\ last_s_trig = [k \in 1..Len(LanesCfg) |-> 0]
    /\ last_entry_trigger_time = 0
    /\ qr_pc = "check" /\ last_qr_key = "" /\ last_time = 0
    /\ tasks = << >>
    /\ api_pc = "idle"
    /\ sensor_events = 0 /\ scans = 0 /\ requests = 0
    /\ api_response = "none"
    /\ ws_event = "none"
    /\ relay_calls = << >>

\* no GPIO call has raised yet
Init == Boot /\ failures = 0

\* outcomes of one gpio.output / gpio.input call: it returns, or it raises
GpioOutcomes == IF failures < MaxFailures THEN {TRUE, FALSE} ELSE {TRUE}

Raised(ok) == failures' = IF ok THEN failures ELSE failures + 1

\* what a step with no maintenance broadcast and no relay call leaves behind
Quiet ==
    /\ ws_event' = "none" /\ relay_calls' = << >> /\ api_response' = "none"
    /\ failures' = failures

\* the error handler after a GPIO call: untouched if it succeeded
after_gpio(ok, message) ==
    IF ok THEN [maintenance_mode |-> maintenance_mode, last_error |-> last_error,
                broadcast |-> "none"]
          ELSE trigger_maintenance(maintenance_mode, last_error, message)

SetErrorHandler(r) ==
    /\ maintenance_mode' = r.maintenance_mode
    /\ last_error' = r.last_error
    /\ ws_event' = r.broadcast

(***************************************************************************)
(* Sensor monitor: SortingSystem._sensor_monitoring_thread                 *)
(***************************************************************************)
Inputs == << sensor_events, scans, requests >>
MonLocals == << mon_pc, mon_i, mon_item, last_s_state, last_s_trig,
                last_entry_trigger_time >>
QrLocals == << qr_pc, last_qr_key, last_time >>
ErrVars == << maintenance_mode, last_error >>

\* step 5 of an iteration: the export into the slot at index num_lanes
export_entry_slot(ls, e) ==
    update_lane_status(ls, Len(ls), [entry_token_count |-> get_entry_queue_length(e)])

\* the end of the body of lane i: the next lane, or the export and the sleep
\* that end the iteration; ls and e are the lanes and the tokens the body left
Mon_Advance(i, ls, e) ==
    IF i + 1 < Len(ls)
    THEN /\ mon_pc' = "lane" /\ mon_i' = i + 1 /\ lanes' = ls
    ELSE /\ mon_pc' = "check" /\ mon_i' = 0 /\ lanes' = export_entry_slot(ls, e)

\* variant of _process_sort_trigger that counts the item at the trigger
process_sort_counts(ls, lane_index) ==
    LET info == get_lane_info(ls, lane_index)
    IN  IF info = << >> THEN ls
        ELSE update_lane_status(ls, lane_index,
                [status |-> "WaitingForPush", count |-> info[1].count + 1])

\* SortingSystem._process_sort_trigger: the status written for the lane
process_sort_status(ls, lane_index) ==
    LET info == get_lane_info(ls, lane_index)
    IN  IF info = << >> THEN ls
        ELSE IF info[1].push_pin = NONE
             THEN update_lane_status(ls, lane_index, [status |-> "PassingThrough"])
             ELSE update_lane_status(ls, lane_index, [status |-> "WaitingForPush"])

\* SortingSystem._process_sort_trigger: the cycle handed to the executor
process_sort_submit(ts, ls, lane_index) ==
    IF get_lane_info(ls, lane_index) = << >> THEN ts
    ELSE Append(ts, [pc |-> "submitted", lane_index |-> lane_index,
                     push_pin |-> NONE, pull_pin |-> NONE])

\* variant of the debounce test that accepts from the debounce time on
debounce_passed_at(now, last_trigger, debounce_time) ==
    (now - last_trigger) >= debounce_time

\* the debounce test of the gate and of the lanes
debounce_passed(now, last_trigger, debounce_time) ==
    (now - last_trigger) > debounce_time

\* top of the loop: the running flag, then the maintenance / auto-test gate,
\* then the timing configuration and now = time.time()
Mon_Check ==
    /\ mon_pc = "check"
    /\ mon_pc' = IF ~main_running THEN "stopped"
                 ELSE IF is_maintenance \/ auto_test_enabled THEN "check"
                 ELSE "timeout"
    /\ Quiet
    /\ UNCHANGED << main_running, ErrVars, auto_test_enabled, lanes, queue_indices,
                    qr_queue, entry_queue, pin_states, clock, mon_i, mon_item,
                    last_s_state, last_s_trig, last_entry_trigger_time, QrLocals,
                    tasks, api_pc, Inputs >>

\* 1. check_qr_timeout and the status reset of the dropped item's lane
Mon_Timeout ==
    /\ mon_pc = "timeout"
    /\ LET r == check_qr_timeout(qr_queue, queue_head_timeout, clock)
       IN  /\ r.item # << >> => ~state_lock_held
           /\ qr_queue' = r.queue
           /\ queue_indices' = IF r.item = << >> THEN queue_indices
                               ELSE update_state_indices(r.queue)
           /\ lanes' = IF r.item = << >> THEN lanes
                       ELSE update_lane_status(lanes, r.item[1].lane_index,
                                               [status |-> "Ready"])
    /\ mon_pc' = "entry"
    /\ Quiet
    /\ UNCHANGED << main_running, ErrVars, auto_test_enabled, entry_queue, pin_states,
                    clock, mon_i, mon_item, last_s_state, last_s_trig,
                    last_entry_trigger_time, QrLocals, tasks, api_pc, Inputs >>

\* 2. the gate sensor: read, debounce, add_entry_token, export of the reading
Mon_Entry ==
    /\ mon_pc = "entry"
    /\ ~state_lock_held
    /\ \E ok \in GpioOutcomes :
        LET entry_sensor_now == read_sensor(pin_states, PIN_ENTRY, ok)
            accepted == entry_sensor_now = 0
                        /\ debounce_passed(clock, last_entry_trigger_time,
                                           sensor_debounce)
            ls == update_lane_status(lanes, Len(lanes),
                                     [sensor_reading |-> entry_sensor_now])
        IN  /\ SetErrorHandler(after_gpio(ok, "sensor")) /\ Raised(ok)
            /\ api_response' = "none"
            /\ last_entry_trigger_time' =
                  IF accepted THEN clock ELSE last_entry_trigger_time
            /\ entry_queue' =
                  IF accepted THEN add_entry_token(entry_queue) ELSE entry_queue
            /\ IF Len(ls) = 0
               THEN /\ mon_pc' = "check" /\ mon_i' = 0
                    /\ lanes' = export_entry_slot(ls, entry_queue')
               ELSE /\ mon_pc' = "lane" /\ mon_i' = 0 /\ lanes' = ls
    /\ relay_calls' = << >>
    /\ UNCHANGED << main_running, auto_test_enabled, queue_indices, qr_queue,
                    pin_states, clock, mon_item, last_s_state, last_s_trig,
                    QrLocals, tasks, api_pc, Inputs >>

\* 3. and 4. lane mon_i: read, falling edge, debounce and the choice of the row
Mon_Lane ==
    /\ mon_pc = "lane"
    /\ ~state_lock_held
    /\ LET i == mon_i
           lane_cfg == lanes[i + 1]
       IN  IF lane_cfg.sensor_pin = NONE
           THEN /\ Mon_Advance(i, lanes, entry_queue)
                /\ Quiet
                /\ UNCHANGED << ErrVars, qr_queue, queue_indices, mon_item,
                                last_s_state, last_s_trig >>
           ELSE \E ok \in GpioOutcomes :
                LET sensor_now == read_sensor(pin_states, lane_cfg.sensor_pin, ok)
                    ls == update_lane_status(lanes, i, [sensor_reading |-> sensor_now])
                    edge == sensor_now = 0 /\ last_s_state[i + 1] = 1
                    accepted == edge /\ debounce_passed(clock, last_s_trig[i + 1],
                                                        sensor_debounce)
                    popped == pop_qr_by_index(qr_queue, i)
                IN  /\ SetErrorHandler(after_gpio(ok, "sensor")) /\ Raised(ok)
                    /\ relay_calls' = << >> /\ api_response' = "none"
                    /\ last_s_trig' = IF accepted
                                      THEN [last_s_trig EXCEPT ![i + 1] = clock]
                                      ELSE last_s_trig
                    /\ last_s_state' = [last_s_state EXCEPT ![i + 1] = sensor_now]
                    /\ IF accepted /\ popped.item # << >>
                       THEN /\ qr_queue' = popped.queue
                            /\ queue_indices' = update_state_indices(popped.queue)
                            /\ mon_item' = popped.item
                            /\ mon_pc' = "consume" /\ mon_i' = i /\ lanes' = ls
                       ELSE /\ UNCHANGED << qr_queue, queue_indices, mon_item >>
                            /\ IF accepted /\ ~is_entry_queue_empty(entry_queue)
                                  /\ lane_cfg.push_pin = NONE
                               THEN mon_pc' = "pt_consume" /\ mon_i' = i /\ lanes' = ls
                               ELSE Mon_Advance(i, ls, entry_queue)
    /\ UNCHANGED << main_running, auto_test_enabled, entry_queue, pin_states, clock,
                    last_entry_trigger_time, QrLocals, tasks, api_pc, Inputs >>

\* rows 1 and 2: a QR item was popped; consume_entry_token decides
Mon_Consume ==
    /\ mon_pc = "consume"
    /\ LET i == mon_i
           c == consume_entry_token(entry_queue)
       IN  /\ c.ok => ~state_lock_held
           /\ entry_queue' = c.queue
           /\ IF c.ok
              THEN /\ tasks' = process_sort_submit(tasks, lanes, i)
                   /\ mon_item' = << >>
                   /\ Mon_Advance(i, process_sort_status(lanes, i), c.queue)
              ELSE /\ mon_pc' = "pushfront"
                   /\ UNCHANGED << tasks, mon_item, mon_i, lanes >>
    /\ Quiet
    /\ UNCHANGED << main_running, ErrVars, auto_test_enabled, queue_indices, qr_queue,
                    pin_states, clock, last_s_state, last_s_trig,
                    last_entry_trigger_time, QrLocals, api_pc, Inputs >>

\* row 2: the item goes back to the head of the QR queue
Mon_PushFront ==
    /\ mon_pc = "pushfront"
    /\ ~state_lock_held
    /\ qr_queue' = add_qr_item_at_head(qr_queue, mon_item[1])
    /\ queue_indices' = update_state_indices(qr_queue')
    /\ mon_item' = << >>
    /\ Mon_Advance(mon_i, lanes, entry_queue)
    /\ Quiet
    /\ UNCHANGED << main_running, ErrVars, auto_test_enabled, entry_queue, pin_states,
                    clock, last_s_state, last_s_trig,
                    last_entry_trigger_time, QrLocals, tasks, api_pc, Inputs >>

\* row 3: pass-through lane with a token and no QR item; the result of
\* consume_entry_token is not looked at
Mon_PtConsume ==
    /\ mon_pc = "pt_consume"
    /\ ~state_lock_held
    /\ LET i == mon_i
           c == consume_entry_token(entry_queue)
       IN  /\ entry_queue' = c.queue
           /\ tasks' = process_sort_submit(tasks, lanes, i)
           /\ Mon_Advance(i, process_sort_status(lanes, i), c.queue)
    /\ Quiet
    /\ UNCHANGED << main_running, ErrVars, auto_test_enabled, queue_indices, qr_queue,
                    pin_states, clock, mon_item, last_s_state, last_s_trig,
                    last_entry_trigger_time, QrLocals, api_pc, Inputs >>

SensorMon ==
    \/ Mon_Check \/ Mon_Timeout \/ Mon_Entry \/ Mon_Lane
    \/ Mon_Consume \/ Mon_PushFront \/ Mon_PtConsume

(***************************************************************************)
(* Recognition ingester: SortingSystem._qr_detection_loop, QRScanner       *)
(***************************************************************************)
\* utils.canon_id on the strings of the model: accents stripped, upper case,
\* only A-Z and 0-9 kept, leading LOAI / LO removed
canon_id(s) ==
    CASE s = "a" -> "A"
      [] s = "A" -> "A"
      [] s = "LO-D" -> "D"
      [] s = "D" -> "D"
      [] s = "x-9" -> "X9"
      [] OTHER -> s

\* variant of the repeat filter that lets a repeat through from the end of
\* the window on
scan_accepts_at(data_key, now, prev_key, prev_time) ==
    data_key # prev_key \/ (now - prev_time) >= DedupWindow

\* QRScanner.scan_frame after decoding: the repeat filter
scan_accepts(data_key, now, prev_key, prev_time) ==
    data_key # prev_key \/ (now - prev_time) > DedupWindow

\* variant of the lane map that sends every known key to the first lane
lane_map_first_lane(ls, key) ==
    LET hits == {k \in 1..Len(ls) : canon_id(ls[k].id) = key}
    IN  IF hits = {} THEN -1 ELSE 0

\* lane_map[key]: the dict comprehension keeps the last lane of a key
lane_map(ls, key) ==
    LET hits == {k \in 1..Len(ls) : canon_id(ls[k].id) = key}
    IN  IF hits = {} THEN -1
        ELSE (CHOOSE k \in hits : \A j \in hits : j <= k) - 1

\* top of the loop: the running flag, then the maintenance / auto-test gate,
\* then get_frame.  An iteration whose frame decodes to nothing (scan_frame
\* returns None) ends here: it touches no shared object
Qr_Frame(may_decode) ==
    /\ qr_pc = "check"
    /\ \E decodes \in {b \in BOOLEAN : b => may_decode} :
        qr_pc' = IF ~main_running THEN "stopped"
                 ELSE IF is_maintenance \/ auto_test_enabled THEN "check"
                 ELSE IF decodes THEN "scan" ELSE "check"
    /\ Quiet
    /\ UNCHANGED << main_running, ErrVars, auto_test_enabled, lanes, queue_indices,
                    qr_queue, entry_queue, pin_states, clock, MonLocals,
                    last_qr_key, last_time, tasks, api_pc, Inputs >>

\* the camera shows a code while fewer than MaxScans frames were decoded
Qr_Check == Qr_Frame(scans < MaxScans)

\* a decoded frame: the repeat filter, the lane map, add_qr_item, the status;
\* codes are the strings the frame can hold, decoded the new count of frames
Qr_Decoded(codes, decoded) ==
    /\ qr_pc = "scan"
    /\ \E raw \in codes :
        LET key == canon_id(raw)
            mapped_index == lane_map(lanes, key)
            queue_item == [lane_index |-> mapped_index, qr_key |-> key,
                           lane_id |-> lanes[mapped_index + 1].id,
                           timestamp |-> clock]
        IN  IF scan_accepts(key, clock, last_qr_key, last_time)
            THEN /\ mapped_index # -1 => ~state_lock_held
                 /\ last_qr_key' = key
                 /\ last_time' = clock
                 /\ IF mapped_index # -1
                    THEN /\ qr_queue' = add_qr_item(qr_queue, queue_item)
                         /\ queue_indices' = update_state_indices(qr_queue')
                         /\ lanes' = update_lane_status(lanes, mapped_index,
                                                        [status |-> "WaitingForItem"])
                    ELSE UNCHANGED << qr_queue, queue_indices, lanes >>
            ELSE UNCHANGED << last_qr_key, last_time, qr_queue, queue_indices, lanes >>
    /\ qr_pc' = "check"
    /\ scans' = decoded
    /\ Quiet
    /\ UNCHANGED << main_running, ErrVars, auto_test_enabled, entry_queue, pin_states,
                    clock, MonLocals, tasks, api_pc, sensor_events, requests >>

Qr_Scan == Qr_Decoded(RawCodes, scans + 1)

QRScannerLogic == Qr_Check \/ Qr_Scan

(***************************************************************************)
(* Sort executor: _sorting_process_wrapper and _sorting_process            *)
(***************************************************************************)
Drop(ts, k) == RemoveAt(ts, k)

\* variant of the success branch that writes the count of a first cycle
count_success_first(ls, lane_index) ==
    [ls EXCEPT ![lane_index + 1] =
        [@ EXCEPT !.count = 1, !.status = "Ready"]]

\* the finally block of _sorting_process on success: count + 1 and Ready
count_success(ls, lane_index) ==
    [ls EXCEPT ![lane_index + 1] =
        [@ EXCEPT !.count = @ + 1, !.status = "Ready"]]

\* the finally block of _sorting_process when the cycle returned early
count_failure(ls, lane_index) ==
    update_lane_status(ls, lane_index, [status |-> "Ready"])

TaskFrame == UNCHANGED << main_running, auto_test_enabled, queue_indices, qr_queue,
                          entry_queue, clock, MonLocals, QrLocals, api_pc, Inputs >>

\* the wrapper (lane snapshot, no push_delay, running flag) and the first
\* phase: relay_off(pull_pin), or the pass-through status
T_Start(k) ==
    /\ tasks[k].pc = "submitted"
    /\ ~state_lock_held
    /\ LET t == tasks[k]
           info == get_lane_info(lanes, t.lane_index)
       IN  IF info = << >> \/ ~main_running
           THEN /\ tasks' = Drop(tasks, k)
                /\ Quiet
                /\ UNCHANGED << ErrVars, lanes, pin_states >>
           ELSE IF info[1].push_pin = NONE \/ info[1].pull_pin = NONE
           THEN /\ tasks' = [tasks EXCEPT ![k].pc = "passing"]
                /\ lanes' = update_lane_status(lanes, t.lane_index,
                                               [status |-> "PassingThrough"])
                /\ Quiet
                /\ UNCHANGED << ErrVars, pin_states >>
           ELSE \E ok \in GpioOutcomes :
                /\ tasks' = [tasks EXCEPT ![k] =
                        [pc |-> "push_on", lane_index |-> t.lane_index,
                         push_pin |-> info[1].push_pin, pull_pin |-> info[1].pull_pin]]
                /\ pin_states' = relay_write(pin_states, "off", info[1].pull_pin, ok)
                /\ relay_calls' = relay_call("off", info[1].pull_pin, maintenance_mode)
                /\ SetErrorHandler(after_gpio(ok, "relay")) /\ Raised(ok)
                /\ api_response' = "none"
                /\ lanes' = update_lane_status(
                                update_lane_status(lanes, t.lane_index,
                                                   [status |-> "Sorting"]),
                                t.lane_index, [relay_grab |-> 0])
    /\ TaskFrame

\* one later phase of the piston cycle, after its sleep: the running flag,
\* then the relay write and the state-store field that mirrors it
T_Phase(k, at, op, pin, field, value, next) ==
    /\ tasks[k].pc = at
    /\ ~state_lock_held
    /\ LET t == tasks[k]
       IN  IF ~main_running
           THEN /\ tasks' = Drop(tasks, k)
                /\ lanes' = count_failure(lanes, t.lane_index)
                /\ Quiet
                /\ UNCHANGED << ErrVars, pin_states >>
           ELSE \E ok \in GpioOutcomes :
                /\ pin_states' = relay_write(pin_states, op, pin, ok)
                /\ relay_calls' = relay_call(op, pin, maintenance_mode)
                /\ SetErrorHandler(after_gpio(ok, "relay")) /\ Raised(ok)
                /\ api_response' = "none"
                /\ IF next = "done"
                   THEN /\ tasks' = Drop(tasks, k)
                        /\ lanes' = count_success(
                                update_lane_status(lanes, t.lane_index, field :> value),
                                t.lane_index)
                   ELSE /\ tasks' = [tasks EXCEPT ![k].pc = next]
                        /\ lanes' = update_lane_status(lanes, t.lane_index,
                                                       field :> value)
    /\ TaskFrame

T_PushOn(k) == T_Phase(k, "push_on", "on", tasks[k].push_pin, "relay_push", 1, "push_off")
T_PushOff(k) == T_Phase(k, "push_off", "off", tasks[k].push_pin, "relay_push", 0, "pull_on")
T_PullOn(k) == T_Phase(k, "pull_on", "on", tasks[k].pull_pin, "relay_grab", 1, "done")

\* pass-through: after the 0.1 s sleep the cycle counts as a success
T_PassDone(k) ==
    /\ tasks[k].pc = "passing"
    /\ ~state_lock_held
    /\ tasks' = Drop(tasks, k)
    /\ lanes' = count_success(lanes, tasks[k].lane_index)
    /\ Quiet
    /\ UNCHANGED << ErrVars, pin_states >>
    /\ TaskFrame

Executor ==
    \E k \in 1..Len(tasks) :
        T_Start(k) \/ T_PushOn(k) \/ T_PushOff(k) \/ T_PullOn(k) \/ T_PassDone(k)

(***************************************************************************)
(* Control plane: APIRouter.route_reset_maintenance, route_api_queue_reset *)
(***************************************************************************)
\* variant of the first lock of clear_all_queues that spares the head
clear_qr_queue_behind_head(q) == IF q = << >> THEN q ELSE << q[1] >>

\* QueueManager.clear_all_queues, first lock: the QR queue and its projection
clear_qr_queue(q) == << >>

\* QueueManager.clear_all_queues, second lock: the entry queue
clear_entry_queue(e) == << >>

ApiFrame == UNCHANGED << main_running, auto_test_enabled, lanes, pin_states, clock,
                         failures, sensor_events, scans,
                         MonLocals, QrLocals, tasks >>

\* POST /api/reset_maintenance (or the reset_maintenance action of /ws):
\* is_maintenance guards the handler; if set, error_handler.reset() follows
Api_ResetMaintenance ==
    /\ api_pc = "idle"
    /\ main_running
    /\ requests < MaxRequests
    /\ requests' = requests + 1
    /\ IF is_maintenance
       THEN /\ SetErrorHandler(reset(maintenance_mode, last_error))
            /\ api_pc' = "rm_clear_qr"
            /\ api_response' = "none"
       ELSE /\ UNCHANGED ErrVars
            /\ ws_event' = "none"
            /\ api_pc' = "idle"
            /\ api_response' = "not_in_maintenance"
    /\ relay_calls' = << >>
    /\ UNCHANGED << queue_indices, qr_queue, entry_queue >>
    /\ ApiFrame

\* POST /api/queue/reset: refused with 403 in maintenance
Api_QueueReset ==
    /\ api_pc = "idle"
    /\ main_running
    /\ requests < MaxRequests
    /\ requests' = requests + 1
    /\ api_pc' = IF is_maintenance THEN "idle" ELSE "qr_clear_qr"
    /\ api_response' = IF is_maintenance THEN "refused" ELSE "none"
    /\ ws_event' = "none" /\ relay_calls' = << >>
    /\ UNCHANGED << ErrVars, queue_indices, qr_queue, entry_queue >>
    /\ ApiFrame

Api_ClearQr ==
    /\ api_pc \in {"rm_clear_qr", "qr_clear_qr"}
    /\ requests' = requests
    /\ qr_queue' = clear_qr_queue(qr_queue)
    /\ queue_indices' = update_state_indices(qr_queue')
    /\ api_pc' = IF api_pc = "rm_clear_qr" THEN "rm_clear_entry" ELSE "qr_clear_entry"
    /\ api_response' = "none"
    /\ ws_event' = "none" /\ relay_calls' = << >>
    /\ UNCHANGED << ErrVars, entry_queue >>
    /\ ApiFrame

Api_ClearEntry ==
    /\ api_pc \in {"rm_clear_entry", "qr_clear_entry"}
    /\ requests' = requests
    /\ entry_queue' = clear_entry_queue(entry_queue)
    /\ api_pc' = "idle"
    /\ api_response' = IF api_pc = "rm_clear_entry" THEN "maintenance_reset"
                                                     ELSE "queue_reset"
    /\ ws_event' = "none" /\ relay_calls' = << >>
    /\ UNCHANGED << ErrVars, queue_indices, qr_queue >>
    /\ ApiFrame

ControlPlane ==
    \/ Api_ResetMaintenance \/ Api_QueueReset
    \/ Api_ClearQr \/ Api_ClearEntry

(***************************************************************************)
(* Environment: sensors, clock, stop()                                     *)
(***************************************************************************)
\* an item arrives at, or leaves, a sensor.  The monitor is the only reader
\* of a sensor pin and reads each pin once per iteration, so a change during
\* an iteration is a change before or after it
SensorChange(most) ==
    /\ main_running
    /\ mon_pc = "check"
    /\ sensor_events < most
    /\ sensor_events' = sensor_events + 1
    /\ \E p \in SensorPins, level \in {LOW, HIGH} :
        /\ pin_states[p] # level
        /\ pin_states' = [pin_states EXCEPT ![p] = level]
    /\ Quiet
    /\ UNCHANGED << main_running, ErrVars, auto_test_enabled, lanes, queue_indices,
                    qr_queue, entry_queue, clock, MonLocals, QrLocals, tasks,
                    api_pc, scans, requests >>

SetSensor == SensorChange(MaxSensorEvents)

\* the clock advances between iterations of the monitor (about 5 ms each)
ClockAdvance(last) ==
    /\ main_running
    /\ mon_pc = "check"
    /\ clock < last
    /\ clock' = clock + 1
    /\ Quiet
    /\ UNCHANGED << main_running, ErrVars, auto_test_enabled, lanes, queue_indices,
                    qr_queue, entry_queue, pin_states, MonLocals, QrLocals, tasks,
                    api_pc, Inputs >>

Tick == ClockAdvance(MaxTime)

\* SortingSystem.stop: the running flag is cleared
Stop ==
    /\ main_running
    /\ main_running' = FALSE
    /\ Quiet
    /\ UNCHANGED << ErrVars, auto_test_enabled, lanes, queue_indices, qr_queue,
                    entry_queue, pin_states, clock, MonLocals, QrLocals, tasks,
                    api_pc, Inputs >>

Next ==
    \/ SensorMon \/ QRScannerLogic \/ Executor \/ ControlPlane
    \/ SetSensor \/ Tick \/ Stop

Spec == Init /\ [][Next]_vars

\* the running system with the thread pool scheduling every submitted task
FairSpec == Spec /\ WF_vars(Executor)

(***************************************************************************)
(* Vocabulary of the properties                                            *)
(***************************************************************************)
LaneIndices == 0..(Len(LanesCfg) - 1)
Counts == [k \in 1..Len(lanes) |-> lanes[k].count]
Statuses == [k \in 1..Len(lanes) |-> lanes[k].status]
RelayOutputs == [p \in RelayPins |-> pin_states[p]]

\* positions of the QR queue q that target lane i
QrFor(q, i) == {k \in 1..Len(q) : q[k].lane_index = i}
FirstQrFor(q, i) == CHOOSE k \in QrFor(q, i) : \A j \in QrFor(q, i) : k <= j

\* the step is one of the sensor monitor, leaving the place it was at
MonitorStep == << mon_pc, mon_i >>' # << mon_pc, mon_i >>

\* the step is the monitor sampling lane i and accepting a falling edge:
\* the read returns 0, the last level was 1 and the debounce time has passed
EdgeAccepted(i) ==
    /\ mon_pc = "lane" /\ mon_i = i /\ MonitorStep
    /\ failures' = failures
    /\ pin_states[lanes[i + 1].sensor_pin] = LOW
    /\ last_s_state[i + 1] = HIGH
    /\ (clock - last_s_trig[i + 1]) > sensor_debounce

\* nothing of the sort state moves: queues, cycles, counts, relays
NoSortEffect ==
    /\ qr_queue' = qr_queue /\ entry_queue' = entry_queue
    /\ tasks' = tasks /\ Counts' = Counts
    /\ RelayOutputs' = RelayOutputs /\ relay_calls' = << >>

\* the cycle _process_sort_trigger hands to the executor for lane i
SubmittedCycle(i) ==
    [pc |-> "submitted", lane_index |-> i, push_pin |-> NONE, pull_pin |-> NONE]

(***************************************************************************)
(* Match table of the sensor monitor                                       *)
(***************************************************************************)
\* C5 (row 5, spurious trigger): when the monitor accepts a falling edge on
\* lane i while no QR item targets lane i and there is no token, the QR queue,
\* the tokens, every lane's count and status and every relay output are
\* unchanged, no relay call is made and no sort cycle is submitted.
C5_SpuriousTrigger ==
    [][\A i \in LaneIndices :
        (EdgeAccepted(i) /\ QrFor(qr_queue, i) = {} /\ entry_queue = << >>)
            => (NoSortEffect /\ Statuses' = Statuses)]_vars

\* an edge was accepted on lane 0 although no frame was ever decoded and no
\* token was ever added
C5_Witness ==
    /\ last_s_trig[1] # 0 /\ scans = 0 /\ last_entry_trigger_time = 0
    /\ mon_pc = "lane" /\ mon_i = 1
    /\ tasks = << >> /\ Counts = [k \in 1..Len(lanes) |-> 0]

\* C4 (row 4, waiting for QR): when the monitor accepts a falling edge on a
\* sorting lane i (push pin present) while no QR item targets lane i and a
\* token is present, the tokens, the QR queue, the relay outputs and the
\* counts are unchanged and no cycle is submitted; and the number of tokens
\* only ever goes down by one in a match (rows 1 and 3) or to zero when
\* clear_all_queues empties the token queue.
C4_WaitingForQr ==
    [][/\ \A i \in LaneIndices :
            (EdgeAccepted(i) /\ QrFor(qr_queue, i) = {} /\ entry_queue # << >>
                /\ lanes[i + 1].push_pin # NONE)
                => NoSortEffect
       /\ Len(entry_queue') < Len(entry_queue)
            => \/ /\ MonitorStep /\ mon_pc \in {"consume", "pt_consume"}
                  /\ Len(entry_queue') = Len(entry_queue) - 1
                  /\ Len(tasks') = Len(tasks) + 1
               \/ /\ api_pc \in {"rm_clear_entry", "qr_clear_entry"}
                  /\ api_pc' = "idle" /\ entry_queue' = << >>]_vars

\* the gate gave a token and, in the same iteration, an edge was accepted on
\* the sorting lane 0 with no frame ever decoded: the token is still there
C4_Witness ==
    /\ scans = 0 /\ requests = 0
    /\ last_entry_trigger_time # 0 /\ last_s_trig[1] = last_entry_trigger_time
    /\ mon_pc = "lane" /\ mon_i = 1
    /\ Len(entry_queue) = 1 /\ tasks = << >>

\* a cycle of lane i ends in this step: its task leaves the executor
CycleEnds(i) ==
    \E k \in 1..Len(tasks) :
        tasks[k].lane_index = i /\ tasks' = RemoveAt(tasks, k)

\* a count moves only when a cycle of that lane ends, and then by exactly 1,
\* with every other lane's count unchanged
CountsOnlyByCycle ==
    Counts' # Counts =>
        \E i \in LaneIndices :
            CycleEnds(i) /\ Counts' = [Counts EXCEPT ![i + 1] = @ + 1]

\* a cycle of lane i is with the executor
InFlight(i) == \E k \in 1..Len(tasks) : tasks[k].lane_index = i

\* the executor ends every cycle of lane i it was handed
CycleEndsEventually(i) == []<>(~InFlight(i))

\* a cycle that ends while the system runs raises the count of its lane
RunningCycleCounts ==
    \A i \in LaneIndices :
        (CycleEnds(i) /\ main_running)
            => Counts' = [Counts EXCEPT ![i + 1] = @ + 1]

\* C1 (row 1, match): when the monitor accepts a falling edge on lane i while
\* a QR item targets lane i, it removes exactly the first such item; with a
\* token present at consume_entry_token it removes exactly one token and
\* submits exactly one cycle for lane i, changing no count.  A count moves
\* only when a cycle of its lane ends, by exactly 1; and while the system
\* runs every submitted cycle of a sorting lane ends with the count raised,
\* so one item and one token end as count + 1 with both queues empty.
C1_MatchRow1 ==
    /\ [][/\ \A i \in LaneIndices :
                (EdgeAccepted(i) /\ QrFor(qr_queue, i) # {})
                    => /\ qr_queue' = RemoveAt(qr_queue, FirstQrFor(qr_queue, i))
                       /\ Len(qr_queue') = Len(qr_queue) - 1
                       /\ mon_item' = << qr_queue[FirstQrFor(qr_queue, i)] >>
                       /\ mon_pc' = "consume" /\ mon_i' = i
                       /\ entry_queue' = entry_queue /\ tasks' = tasks
                       /\ Counts' = Counts
          /\ (mon_pc = "consume" /\ MonitorStep /\ entry_queue # << >>)
                => /\ entry_queue' = Tail(entry_queue)
                   /\ qr_queue' = qr_queue
                   /\ tasks' = Append(tasks, SubmittedCycle(mon_i))
                   /\ mon_item' = << >>
                   /\ Counts' = Counts
          /\ CountsOnlyByCycle
          /\ RunningCycleCounts]_vars
    /\ \A i \in {j \in LaneIndices : LanesCfg[j + 1].push_pin # NONE} :
            CycleEndsEventually(i)

\* one frame for lane 0, one token and one edge on lane 0 ended as count 1 on
\* lane 0, count 0 elsewhere and both queues empty
C1_Witness ==
    /\ scans = 1 /\ sensor_events = 2 /\ requests = 0 /\ main_running
    /\ lanes[1].count = 1 /\ lanes[2].count = 0
    /\ qr_queue = << >> /\ entry_queue = << >> /\ tasks = << >>


\* C2 (row 2, false trigger): when the monitor accepts a falling edge on lane
\* i while a QR item targets lane i, the first such item is taken out whole
\* (its timestamp with it) and nothing else moves; finding no token at
\* consume_entry_token changes nothing and leads to add_qr_item_at_head,
\* which puts that same item at the front of the QR queue, the other items
\* behind it in their order.  The tokens stay at 0; no cycle is submitted, no
\* relay is written and no count changes in any of these steps.
C2_FalseTrigger ==
    [][/\ \A i \in LaneIndices :
            (EdgeAccepted(i) /\ QrFor(qr_queue, i) # {})
                => /\ mon_item' = << qr_queue[FirstQrFor(qr_queue, i)] >>
                   /\ qr_queue' = RemoveAt(qr_queue, FirstQrFor(qr_queue, i))
                   /\ entry_queue' = entry_queue /\ tasks' = tasks
                   /\ Counts' = Counts /\ RelayOutputs' = RelayOutputs
                   /\ relay_calls' = << >>
       /\ (mon_pc = "consume" /\ MonitorStep /\ entry_queue = << >>)
            => /\ mon_pc' = "pushfront" /\ mon_i' = mon_i /\ mon_item' = mon_item
               /\ NoSortEffect
       /\ (mon_pc \in {"consume", "pushfront"} /\ ~MonitorStep)
            => mon_item' = mon_item
       /\ (mon_pc = "pushfront" /\ MonitorStep)
            => /\ qr_queue' = << mon_item[1] >> \o qr_queue
               /\ qr_queue'[1].timestamp = mon_item[1].timestamp
               /\ entry_queue' = entry_queue /\ tasks' = tasks
               /\ Counts' = Counts /\ RelayOutputs' = RelayOutputs
               /\ relay_calls' = << >>]_vars

\* the item of lane 0, decoded after the other item of the queue, is back at
\* the front with its later timestamp; no token, no cycle, no count
C2_Witness ==
    /\ Len(qr_queue) = 2 /\ qr_queue[1].lane_index = 0
    /\ qr_queue[1].timestamp > qr_queue[2].timestamp
    /\ mon_item = << >> /\ mon_pc = "lane" /\ mon_i = 1
    /\ entry_queue = << >> /\ last_entry_trigger_time = 0
    /\ tasks = << >> /\ Counts = [k \in 1..Len(lanes) |-> 0]

\* the step moves or ends the cycle at position k of the executor
CycleStep(k) ==
    \/ tasks' = RemoveAt(tasks, k)
    \/ Len(tasks') = Len(tasks) /\ tasks'[k] # tasks[k]

\* C3 (row 3, pass-through): when the monitor accepts a falling edge on a
\* lane i without push pin while no QR item targets lane i and a token is
\* present, it goes on to consume_entry_token, which removes exactly one
\* token, leaves the QR queue unchanged and submits one cycle for lane i; no
\* step of that cycle issues relay_on or relay_off or moves a relay pin; the
\* count of lane i moves by exactly 1 when the cycle ends, and while the
\* system runs the cycle does end.
C3_PassThrough ==
    /\ [][/\ \A i \in LaneIndices :
                (EdgeAccepted(i) /\ QrFor(qr_queue, i) = {} /\ entry_queue # << >>
                    /\ lanes[i + 1].push_pin = NONE)
                    => (mon_pc' = "pt_consume" /\ mon_i' = i /\ NoSortEffect)
          /\ (mon_pc = "pt_consume" /\ MonitorStep /\ entry_queue # << >>)
                => /\ Len(entry_queue') = Len(entry_queue) - 1
                   /\ entry_queue' = Tail(entry_queue)
                   /\ qr_queue' = qr_queue
                   /\ tasks' = Append(tasks, SubmittedCycle(mon_i))
                   /\ Counts' = Counts /\ RelayOutputs' = RelayOutputs
                   /\ relay_calls' = << >>
          /\ \A k \in 1..Len(tasks) :
                (lanes[tasks[k].lane_index + 1].push_pin = NONE /\ CycleStep(k))
                    => (relay_calls' = << >> /\ RelayOutputs' = RelayOutputs)
          /\ CountsOnlyByCycle
          /\ RunningCycleCounts]_vars
    /\ \A i \in {j \in LaneIndices : LanesCfg[j + 1].push_pin = NONE} :
            CycleEndsEventually(i)

\* with no frame ever decoded, a token and an edge on the pass-through lane
\* ended as count 1 on that lane and no token left
C3_Witness ==
    /\ scans = 0 /\ requests = 0 /\ failures = 0 /\ main_running
    /\ lanes[2].count = 1 /\ lanes[1].count = 0
    /\ entry_queue = << >> /\ qr_queue = << >> /\ tasks = << >>


(***************************************************************************)
(* Maintenance                                                             *)
(***************************************************************************)
\* C6: while maintenance is active the core issues no relay_on and no
\* relay_off: every relay call is made with the maintenance flag down, also
\* by a sort cycle that was in flight when maintenance was triggered.
C6_NoRelayCallInMaintenance ==
    \A k \in 1..Len(relay_calls) : ~relay_calls[k].maintenance

\* the step is the monitor making a sort decision: it takes a QR item or a
\* token out of its queue, or submits a cycle
MonitorDecides ==
    /\ MonitorStep
    /\ \/ Len(qr_queue') < Len(qr_queue)
       \/ Len(entry_queue') < Len(entry_queue)
       \/ Len(tasks') > Len(tasks)

\* the step is the ingester appending an item to the QR queue
IngesterAppends ==
    /\ qr_pc = "scan" /\ qr_pc' # qr_pc
    /\ Len(qr_queue') > Len(qr_queue)

\* C7: while maintenance is active the monitor makes no sort decision and the
\* ingester appends nothing to the QR queue, in every interleaving.
C7_SuppressedInMaintenance ==
    [][maintenance_mode => (~MonitorDecides /\ ~IngesterAppends)]_vars

\* C8: maintenance is a latch: a step takes the flag from active to inactive
\* only if it is error_handler.reset() called by the reset_maintenance
\* handler; no other operation and no passage of time does.
C8_MaintenanceLatch ==
    [][(maintenance_mode /\ ~maintenance_mode')
        => (api_pc = "idle" /\ api_pc' = "rm_clear_qr" /\ ws_event' = "off"
            /\ last_error' = "None")]_vars

\* maintenance is still active after the clock moved on, a control-plane
\* request was handled and an in-flight cycle made a relay call
C8_Witness ==
    /\ maintenance_mode /\ last_error # "None"
    /\ clock > StartTime /\ requests = 1 /\ api_pc = "idle"
    /\ relay_calls # << >> /\ relay_calls[1].maintenance

\* the step makes a call of trigger_maintenance: a GPIO call raised
TriggerCalled == failures' = failures + 1

\* C9: trigger_maintenance is idempotent: called while maintenance is active
\* with reason r1 it leaves (active, reason) = (TRUE, r1) and emits no event,
\* whatever its own reason; and a step emits the maintenance-on event exactly
\* when it takes the flag from inactive to active, the maintenance-off event
\* exactly when it takes it from active to inactive.
C9_TriggerIdempotent ==
    [][/\ (TriggerCalled /\ maintenance_mode)
            => (maintenance_mode' /\ last_error' = last_error
                /\ ws_event' = "none")
       /\ (TriggerCalled /\ ~maintenance_mode)
            => (maintenance_mode' /\ last_error' \in {"sensor", "relay"}
                /\ ws_event' = "on")
       /\ (ws_event' = "on") <=> (~maintenance_mode /\ maintenance_mode')
       /\ (ws_event' = "off") <=> (maintenance_mode /\ ~maintenance_mode')]_vars

\* a sensor read raised first; then relay_off(pull_pin) of a cycle raised
\* (the pull pin is still at its on level in the push-on phase): the reason
\* is still the first one
C9_Witness ==
    /\ maintenance_mode /\ last_error = "sensor"
    /\ failures = 2 /\ requests = 0 /\ ws_event = "none"
    /\ \E k \in 1..Len(tasks) :
        /\ tasks[k].pc = "push_on"
        /\ pin_states[tasks[k].pull_pin] = relay_level("on")
    /\ relay_calls # << >> /\ relay_calls[1].maintenance

\* C10: when the reset_maintenance operation has completed, maintenance is
\* inactive, its reason is cleared and both queues are empty, whether or not
\* maintenance was active when it was invoked.
C10_ResetLeavesCleanState ==
    api_response \in {"maintenance_reset", "not_in_maintenance"}
        => (~maintenance_mode /\ last_error = "None"
            /\ qr_queue = << >> /\ entry_queue = << >>)

\* the safe baseline of GPIOHandler.reset_all_relays: on every sorting lane
\* the pull relay is at its on level and the push relay at its off level
SafeBaseline ==
    \A k \in 1..Len(lanes) :
        /\ lanes[k].pull_pin # NONE
                => pin_states[lanes[k].pull_pin] = relay_level("on")
        /\ lanes[k].push_pin # NONE
                => pin_states[lanes[k].push_pin] = relay_level("off")

\* C11: when a maintenance reset has completed, every sorting lane is at the
\* safe baseline (pull relay on, push relay off), also when maintenance was
\* entered in the middle of a piston cycle.
C11_ResetRestoresBaseline ==
    api_response = "maintenance_reset" => SafeBaseline


\* C12: if a GPIO write raises during a lane's piston cycle, the cycle is
\* aborted at that phase: the step that made the failed relay call ends the
\* cycle (so no later relay write of the cycle follows), maintenance is
\* active, no count moves and the lane's status is Ready.
C12_FailedWriteAbortsCycle ==
    [][\A k \in 1..Len(tasks) :
        (CycleStep(k) /\ TriggerCalled /\ relay_calls' # << >>)
            => /\ tasks' = RemoveAt(tasks, k)
               /\ maintenance_mode'
               /\ Counts' = Counts
               /\ lanes'[tasks[k].lane_index + 1].status = "Ready"]_vars


(***************************************************************************)
(* Control plane: the reset_count action of /ws and POST /update_config    *)
(***************************************************************************)
\* the position of the reset_count loop over all lanes, before lane i
reset_all_pc == << "rc_all_0", "rc_all_1" >>

CommandFrame == UNCHANGED << main_running, auto_test_enabled, queue_indices,
                             qr_queue, entry_queue, pin_states, clock, failures,
                             sensor_events, scans, MonLocals, QrLocals, tasks >>

\* /ws action reset_count with an integer lane_index: refused in maintenance;
\* update_lane_status(lane_idx, {'count': 0}) if lane_idx is in range
Api_ResetCount ==
    /\ api_pc = "idle"
    /\ main_running
    /\ requests < MaxRequests
    /\ requests' = requests + 1
    /\ \E lane_idx \in 0..Len(lanes) :
        IF is_maintenance
        THEN lanes' = lanes /\ api_response' = "refused"
        ELSE IF 0 <= lane_idx /\ lane_idx < Len(lanes)
        THEN /\ lanes' = update_lane_status(lanes, lane_idx, [count |-> 0])
             /\ api_response' = "count_reset"
        ELSE lanes' = lanes /\ api_response' = "none"
    /\ api_pc' = "idle"
    /\ ws_event' = "none" /\ relay_calls' = << >>
    /\ UNCHANGED ErrVars
    /\ CommandFrame

\* /ws action reset_count with lane_index 'all': refused in maintenance; the
\* loop calls update_lane_status(i, {'count': 0}) lane by lane, taking the
\* state-store lock for each lane.  This step is the call for lane 0
Api_ResetCountAll ==
    /\ api_pc = "idle"
    /\ main_running
    /\ requests < MaxRequests
    /\ requests' = requests + 1
    /\ IF is_maintenance
       THEN lanes' = lanes /\ api_pc' = "idle" /\ api_response' = "refused"
       ELSE IF Len(lanes) = 0
       THEN lanes' = lanes /\ api_pc' = "idle" /\ api_response' = "count_reset"
       ELSE /\ lanes' = update_lane_status(lanes, 0, [count |-> 0])
            /\ api_pc' = IF Len(lanes) > 1 THEN reset_all_pc[2] ELSE "idle"
            /\ api_response' = IF Len(lanes) > 1 THEN "none" ELSE "count_reset"
    /\ ws_event' = "none" /\ relay_calls' = << >>
    /\ UNCHANGED ErrVars
    /\ CommandFrame

\* the call of the reset_count loop for lane i > 0
Api_ResetCountNext ==
    /\ \E i \in 1..(Len(reset_all_pc) - 1) :
        /\ api_pc = reset_all_pc[i + 1]
        /\ lanes' = update_lane_status(lanes, i, [count |-> 0])
        /\ api_pc' = IF i + 1 < Len(lanes) /\ i + 1 < Len(reset_all_pc)
                     THEN reset_all_pc[i + 2] ELSE "idle"
        /\ api_response' = IF api_pc' = "idle" THEN "count_reset" ELSE "none"
    /\ requests' = requests
    /\ ws_event' = "none" /\ relay_calls' = << >>
    /\ UNCHANGED ErrVars
    /\ CommandFrame

\* POST /update_config: no maintenance test; the handler takes the
\* state-store lock, merges the posted timing (none is posted here) and
\* reaches the nested acquisition of the same lock
Api_UpdateConfig ==
    /\ api_pc = "idle"
    /\ main_running
    /\ requests < MaxRequests
    /\ requests' = requests + 1
    /\ api_pc' = "uc_state_lock"
    /\ api_response' = "none"
    /\ ws_event' = "none" /\ relay_calls' = << >>
    /\ UNCHANGED << ErrVars, lanes >>
    /\ CommandFrame

Commands ==
    \/ Api_ResetCount \/ Api_ResetCountAll \/ Api_ResetCountNext
    \/ Api_UpdateConfig

CommandNext == Next \/ Commands

\* the running system with the reset_count and update_config commands
CommandSpec == Init /\ [][CommandNext]_vars


(***************************************************************************)
(* Item traffic: the monitor, the ingester and the executor with a longer  *)
(* run of sensor events and of the clock, no operator and no stop()        *)
(***************************************************************************)
MaxTrafficEvents == 4  \* most level changes on sensor pins in TrafficSpec
MaxTrafficTime == 4    \* last instant of the wall clock in TrafficSpec

TrafficSensor == SensorChange(MaxTrafficEvents)
TrafficTick == ClockAdvance(MaxTrafficTime)

TrafficNext ==
    \/ SensorMon \/ QRScannerLogic \/ Executor
    \/ TrafficSensor \/ TrafficTick

TrafficSpec == Init /\ [][TrafficNext]_vars


(***************************************************************************)
(* Counting: the item traffic with a GPIO provider that never raises and   *)
(* an operator who resets counts                                           *)
(***************************************************************************)
CountNext ==
    \/ TrafficNext
    \/ Api_ResetCount \/ Api_ResetCountAll \/ Api_ResetCountNext

\* the provider's calls all return: the budget of raising calls is spent
CountInit == Boot /\ failures = MaxFailures

CountSpec == CountInit /\ [][CountNext]_vars


\* the step ends a cycle of lane i through the success branch: the
\* pass-through sleep is over, or the fourth phase was reached with the
\* running flag set
SuccessfulCompletion(i) ==
    \E k \in 1..Len(tasks) :
        /\ tasks[k].lane_index = i
        /\ tasks' = RemoveAt(tasks, k)
        /\ \/ tasks[k].pc = "passing"
           \/ tasks[k].pc = "pull_on" /\ main_running

\* C13: every successful completion of a sort or pass-through cycle on lane
\* i raises the count of lane i by exactly 1 over the value it has at that
\* moment, leaves the status of lane i Ready and moves no other count, in
\* every interleaving with other completions and with reset_count.
C13_CompletionCounts ==
    [][\A i \in LaneIndices :
        SuccessfulCompletion(i)
            => /\ lanes'[i + 1].count = lanes[i + 1].count + 1
               /\ lanes'[i + 1].status = "Ready"
               /\ \A j \in LaneIndices \ {i} :
                    lanes'[j + 1].count = lanes[j + 1].count]_vars

\* reset_count 'all' has reset lane 0 and not yet lane 1; a cycle of lane 0
\* completed after that reset and a cycle of lane 1 before the loop gets to it
C13_Witness ==
    /\ api_pc = reset_all_pc[2]
    /\ lanes[1].count = 1 /\ lanes[1].status = "Ready"
    /\ lanes[2].count = 1 /\ lanes[2].status = "Ready"
    /\ tasks = << >>


\* the step is one of the reset_count handler
ResetCountStep ==
    api_response' = "count_reset" \/ api_pc' = reset_all_pc[2]

Running(i) ==
    {k \in 1..Len(tasks) : tasks[k].lane_index = i /\ tasks[k].pc # "submitted"}

\* C15: within a lane, sort cycles are serialized: in no reachable state are
\* two piston cycles of the same sorting lane in progress at once.
C15_LaneCyclesSerialized ==
    \A i \in LaneIndices :
        lanes[i + 1].push_pin # NONE => Cardinality(Running(i)) <= 1


C17_QrQueueTimeOrdered ==
    \A k \in 1..(Len(qr_queue) - 1) :
        qr_queue[k].timestamp <= qr_queue[k + 1].timestamp


(***************************************************************************)
(* QueueManager on its own: the QR queue under every sequence of calls of  *)
(* add_qr_item, pop_qr_by_index, add_qr_item_at_head and check_qr_timeout  *)
(* by one client, which returns or keeps the item it popped (as the        *)
(* monitor does).  mon_pc is the client's last call, mon_item the item it   *)
(* holds                                                                   *)
(***************************************************************************)
MaxQueueLen == 3       \* most items in the QR queue in QueueSpec
MaxQueueTime == 5      \* last instant of the wall clock in QueueSpec
MaxTimeout == 2        \* largest timeout the properties are stated for

QueueFrame ==
    UNCHANGED << main_running, ErrVars, auto_test_enabled, lanes, entry_queue,
                 pin_states, mon_i, last_s_state, last_s_trig,
                 last_entry_trigger_time, QrLocals, tasks, api_pc, failures,
                 Inputs, api_response, ws_event, relay_calls >>

\* the item the ingester builds for lane i at time now
queue_item(ls, i, now) ==
    [lane_index |-> i, qr_key |-> canon_id(ls[i + 1].id),
     lane_id |-> ls[i + 1].id, timestamp |-> now]

Q_Add ==
    /\ Len(qr_queue) < MaxQueueLen
    /\ \E i \in LaneIndices :
        qr_queue' = add_qr_item(qr_queue, queue_item(lanes, i, clock))
    /\ queue_indices' = update_state_indices(qr_queue')
    /\ mon_pc' = "add_qr_item"
    /\ UNCHANGED << mon_item, clock >>
    /\ QueueFrame

\* pop_qr_by_index(i), also for an index no item can have; the client keeps
\* the item to return it, or consumes it
Q_Pop ==
    /\ mon_item = << >>
    /\ \E i \in 0..Len(lanes), keeps \in BOOLEAN :
        LET r == pop_qr_by_index(qr_queue, i)
        IN  /\ qr_queue' = r.queue
            /\ mon_item' = IF keeps THEN r.item ELSE << >>
    /\ queue_indices' = update_state_indices(qr_queue')
    /\ mon_pc' = "pop_qr_by_index"
    /\ UNCHANGED clock
    /\ QueueFrame

Q_AddAtHead ==
    /\ mon_item # << >>
    /\ qr_queue' = add_qr_item_at_head(qr_queue, mon_item[1])
    /\ queue_indices' = update_state_indices(qr_queue')
    /\ mon_item' = << >>
    /\ mon_pc' = "add_qr_item_at_head"
    /\ UNCHANGED clock
    /\ QueueFrame

Q_Timeout ==
    /\ LET r == check_qr_timeout(qr_queue, queue_head_timeout, clock)
       IN  qr_queue' = r.queue
    /\ queue_indices' = update_state_indices(qr_queue')
    /\ mon_pc' = "check_qr_timeout"
    /\ UNCHANGED << mon_item, clock >>
    /\ QueueFrame

Q_Tick ==
    /\ clock < MaxQueueTime
    /\ clock' = clock + 1
    /\ UNCHANGED << qr_queue, queue_indices, mon_pc, mon_item >>
    /\ QueueFrame

QueueNext == Q_Add \/ Q_Pop \/ Q_AddAtHead \/ Q_Timeout \/ Q_Tick

QueueSpec == Init /\ [][QueueNext]_vars


\* the number of positions of q that hold item x
Occurrences(q, x) == Cardinality({k \in 1..Len(q) : q[k] = x})

\* the items of q that target lane i, in their order, and the others
OfLane(q, i) == LET Test(x) == x.lane_index = i IN SelectSeq(q, Test)
NotOfLane(q, i) == LET Test(x) == x.lane_index # i IN SelectSeq(q, Test)

\* C18: pop_qr_by_index(i) returns nothing and changes nothing when no item
\* targets lane i; otherwise it removes and returns the item at the first
\* position f that targets lane i, every other item keeping its place in the
\* order; and that item is the one of lane i that was enqueued first.
C18_PopFirstOfLane ==
    \A i \in 0..Len(lanes) :
        LET q == qr_queue
            r == pop_qr_by_index(q, i)
        IN  IF \A k \in 1..Len(q) : q[k].lane_index # i
            THEN r.item = << >> /\ r.queue = q
            ELSE /\ Len(r.item) = 1 /\ r.item[1].lane_index = i
                 /\ Len(r.queue) = Len(q) - 1
                 /\ \E f \in 1..Len(q) :
                        /\ q[f] = r.item[1]
                        /\ \A k \in 1..(f - 1) :
                                q[k].lane_index # i /\ r.queue[k] = q[k]
                        /\ \A k \in f..(Len(q) - 1) : r.queue[k] = q[k + 1]
                 /\ \A k \in 1..Len(q) :
                        q[k].lane_index = i
                            => r.item[1].timestamp <= q[k].timestamp

\* the client holds the item of lane 0 it has just popped from behind the
\* head, an older item of lane 1; a newer item of lane 0 is still queued
C18_Witness ==
    /\ mon_pc = "pop_qr_by_index"
    /\ Len(mon_item) = 1 /\ mon_item[1].lane_index = 0
    /\ Len(qr_queue) = 2
    /\ qr_queue[1].lane_index = 1 /\ qr_queue[2].lane_index = 0
    /\ qr_queue[1].timestamp < mon_item[1].timestamp
    /\ mon_item[1].timestamp < qr_queue[2].timestamp

\* C19 (return-to-front law): for every queue content and every lane i with
\* a queued item, pop_qr_by_index(i) followed by add_qr_item_at_head of the
\* returned item gives a queue with the same items (timestamps included), the
\* returned item at the front, the items of lane i in the same order as
\* before and the other items in the same order as before; applying the
\* pair again changes nothing.
C19_ReturnToFront ==
    \A i \in LaneIndices :
        QrFor(qr_queue, i) # {} =>
            LET q == qr_queue
                r == pop_qr_by_index(q, i)
                q2 == add_qr_item_at_head(r.queue, r.item[1])
                r2 == pop_qr_by_index(q2, i)
                q3 == add_qr_item_at_head(r2.queue, r2.item[1])
            IN  /\ Len(q2) = Len(q)
                /\ \A k \in 1..Len(q) :
                        Occurrences(q2, q[k]) = Occurrences(q, q[k])
                /\ q2[1] = r.item[1]
                /\ OfLane(q2, i) = OfLane(q, i)
                /\ NotOfLane(q2, i) = NotOfLane(q, i)
                /\ q3 = q2

\* an item of lane 0 was popped from behind an older item of lane 1 and
\* returned to the front, ahead of it; a newer item of lane 0 is at the back
C19_Witness ==
    /\ mon_pc = "add_qr_item_at_head" /\ mon_item = << >>
    /\ Len(qr_queue) = 3
    /\ qr_queue[1].lane_index = 0 /\ qr_queue[2].lane_index = 1
    /\ qr_queue[3].lane_index = 0
    /\ qr_queue[2].timestamp < qr_queue[1].timestamp
    /\ qr_queue[1].timestamp < qr_queue[3].timestamp

\* the head of q is due at time now for timeout T
HeadPastAge(q, T, now) == q # << >> /\ (now - q[1].timestamp) > T
HeadAtAge(q, T, now) == q # << >> /\ (now - q[1].timestamp) >= T

\* what check_qr_timeout does when the head is due, and when it is not
DropsHeadIff(q, r, due) ==
    /\ (r.item # << >>) <=> due
    /\ due => /\ r.item = << q[1] >>
              /\ Len(r.queue) = Len(q) - 1
              /\ \A k \in 1..Len(r.queue) : r.queue[k] = q[k + 1]
    /\ ~due => r.queue = q

\* C20 as stated: check_qr_timeout(T) removes and returns the head item if
\* and only if the queue is non-empty and the head's age is >= T; otherwise
\* it returns nothing and leaves the queue unchanged; it never removes a
\* non-head item.
C20_TimeoutAtAge ==
    \A T \in 0..MaxTimeout :
        DropsHeadIff(qr_queue, check_qr_timeout(qr_queue, T, clock),
                     HeadAtAge(qr_queue, T, clock))

\* C20 amended: check_qr_timeout(T) removes and returns the head item if and
\* only if the queue is non-empty and the head's age is strictly greater
\* than T (a head whose age is exactly T stays); otherwise it returns
\* nothing and leaves the queue unchanged; it never removes a non-head item.
C20_TimeoutPastAge ==
    \A T \in 0..MaxTimeout :
        DropsHeadIff(qr_queue, check_qr_timeout(qr_queue, T, clock),
                     HeadPastAge(qr_queue, T, clock))

\* check_qr_timeout has just been called on a queue of two items whose head
\* has exactly the age queue_head_timeout: both items are still queued
C20_Witness ==
    /\ mon_pc = "check_qr_timeout"
    /\ Len(qr_queue) = 2
    /\ clock - qr_queue[1].timestamp = queue_head_timeout


(***************************************************************************)
(* The line running for ever: no bound on the frames decoded, on the       *)
(* sensor events or on the time that passes.  The program only compares    *)
(* differences between time.time() and a stored time stamp with a timing   *)
(* constant, so a unit of time passing is written as every stored time     *)
(* stamp moving one unit into the past; a stamp older than Horizon stays   *)
(* put, since every comparison already has the outcome it keeps.           *)
(* No item passes the gate and the provider's calls all return.            *)
(***************************************************************************)
MaxLiveQueue == 2      \* the camera shows a code while the QR queue is shorter

Horizon ==
    1 + CHOOSE m \in {sensor_debounce, queue_head_timeout, DedupWindow} :
            \A n \in {sensor_debounce, queue_head_timeout, DedupWindow} : n <= m

\* the time stamp t after one more unit of time
Older(t) == IF clock - t >= Horizon THEN t ELSE t - 1

\* time.time() is one unit later, between two iterations of the monitor
Elapse ==
    /\ main_running
    /\ mon_pc = "check"
    /\ qr_queue' = [k \in 1..Len(qr_queue) |->
                        [qr_queue[k] EXCEPT !.timestamp = Older(@)]]
    /\ last_s_trig' = [k \in 1..Len(last_s_trig) |-> Older(last_s_trig[k])]
    /\ last_entry_trigger_time' = Older(last_entry_trigger_time)
    /\ last_time' = Older(last_time)
    /\ Quiet
    /\ UNCHANGED << main_running, ErrVars, auto_test_enabled, lanes, queue_indices,
                    entry_queue, pin_states, clock, mon_pc, mon_i, mon_item,
                    last_s_state, qr_pc, last_qr_key, tasks, api_pc, Inputs >>

\* an item arrives at, or leaves, a lane sensor
LaneSensor ==
    /\ main_running
    /\ mon_pc = "check"
    /\ \E p \in SensorPins \ {PIN_ENTRY}, level \in {LOW, HIGH} :
        /\ pin_states[p] # level
        /\ pin_states' = [pin_states EXCEPT ![p] = level]
    /\ Quiet
    /\ UNCHANGED << main_running, ErrVars, auto_test_enabled, lanes, queue_indices,
                    qr_queue, entry_queue, clock, MonLocals, QrLocals, tasks,
                    api_pc, Inputs >>

\* the camera: one code of the first lane, then codes of the last lane
Live_Frame == Qr_Frame(Len(qr_queue) < MaxLiveQueue)
Live_Scan == Qr_Decoded(IF scans = 0 THEN {"a"} ELSE {"LO-D"}, 1)

\* the monitor without the pass-through row, which needs a token
LiveMonitor ==
    \/ Mon_Check \/ Mon_Timeout \/ Mon_Entry \/ Mon_Lane
    \/ Mon_Consume \/ Mon_PushFront

LiveNext == LiveMonitor \/ Live_Frame \/ Live_Scan \/ LaneSensor \/ Elapse

\* the monitor and the ingester keep iterating and time keeps passing
LiveSpec ==
    /\ CountInit /\ [][LiveNext]_vars
    /\ WF_vars(LiveMonitor) /\ WF_vars(Live_Frame \/ Live_Scan)
    /\ SF_vars(Elapse)

\* an item of lane i is in the QR queue, or popped by the monitor, which
\* has not yet matched it or returned it
Pending(i) ==
    \/ QrFor(qr_queue, i) # {}
    \/ mon_item # << >> /\ mon_item[1].lane_index = i

\* C21 (queue liveness): while maintenance is inactive, auto-test is off and
\* the monitor keeps iterating, the item queued for the first lane is
\* eventually removed from the QR queue, by a match or by the head timeout,
\* even when false triggers keep returning items to the front of the queue.
C21_QueuedItemLeaves == Pending(0) ~> ~Pending(0)


(***************************************************************************)
(* The token queue on its own: a client calls add_entry_token and          *)
(* consume_entry_token in any order on the empty queue.  The client's      *)
(* tallies are kept in the input counters: sensor_events counts the calls  *)
(* of add_entry_token, requests the calls of consume_entry_token and scans *)
(* the calls of consume_entry_token that returned True; mon_pc is the      *)
(* client's last call.                                                     *)
(***************************************************************************)
MaxTokenCalls == 6     \* most calls of each of the two operations

TokenFrame ==
    /\ Quiet
    /\ UNCHANGED << main_running, ErrVars, auto_test_enabled, lanes, queue_indices,
                    qr_queue, pin_states, clock, mon_i, mon_item, last_s_state,
                    last_s_trig, last_entry_trigger_time, QrLocals, tasks, api_pc >>

Tk_Add ==
    /\ sensor_events < MaxTokenCalls
    /\ entry_queue' = add_entry_token(entry_queue)
    /\ sensor_events' = sensor_events + 1
    /\ mon_pc' = "add_entry_token"
    /\ UNCHANGED << requests, scans >>
    /\ TokenFrame

Tk_Consume ==
    /\ requests < MaxTokenCalls
    /\ LET c == consume_entry_token(entry_queue)
       IN  /\ entry_queue' = c.queue
           /\ scans' = IF c.ok THEN scans + 1 ELSE scans
    /\ requests' = requests + 1
    /\ mon_pc' = "consume_entry_token"
    /\ UNCHANGED sensor_events
    /\ TokenFrame

TokenNext == Tk_Add \/ Tk_Consume

TokenSpec == Init /\ [][TokenNext]_vars

Surplus(n, m) == IF n > m THEN n - m ELSE 0

\* C22 as claimed: after N add_entry_token calls and M consume_entry_token
\* calls in any order on an initially empty token queue, the length is
\* max(0, N - M).
C22_LengthIsSurplus ==
    get_entry_queue_length(entry_queue) = Surplus(sensor_events, requests)

\* C22 as amended: after N add_entry_token calls and M consume_entry_token
\* calls in any order on an initially empty token queue, the length is N
\* minus the number of consume calls that returned True; it is never negative
\* and never below max(0, N - M), and it equals max(0, N - M) when every
\* consume call returned True.
C22_LengthIsUnconsumed ==
    /\ get_entry_queue_length(entry_queue) = sensor_events - scans
    /\ get_entry_queue_length(entry_queue) >= Surplus(sensor_events, requests)
    /\ scans = requests =>
          get_entry_queue_length(entry_queue) = Surplus(sensor_events, requests)

\* three tokens were added and three consume calls made, one of them on the
\* empty queue: one token is left
C22_Witness ==
    /\ sensor_events = 3 /\ requests = 3 /\ scans = 2
    /\ get_entry_queue_length(entry_queue) = 1


(***************************************************************************)
(* clear_all_queues called by the client of QueueManager, after any calls  *)
(* that fill the two queues; requests counts the calls of clear_all_queues *)
(***************************************************************************)
\* the whole of clear_all_queues, with no other thread at the queues
Q_Clear ==
    /\ requests < MaxRequests
    /\ requests' = requests + 1
    /\ qr_queue' = clear_qr_queue(qr_queue)
    /\ queue_indices' = update_state_indices(qr_queue')
    /\ entry_queue' = clear_entry_queue(entry_queue)
    /\ mon_pc' = "clear_all_queues"
    /\ Quiet
    /\ UNCHANGED << main_running, ErrVars, auto_test_enabled, lanes, pin_states,
                    clock, mon_i, mon_item, last_s_state, last_s_trig,
                    last_entry_trigger_time, QrLocals, tasks, api_pc,
                    sensor_events, scans >>

ClearNext == QueueNext \/ Tk_Add \/ Q_Clear

ClearSpec == Init /\ [][ClearNext]_vars

\* C23: when clear_all_queues returns, the QR queue is empty, the token queue
\* is empty and queue_indices in the state store is the empty list, whatever
\* the two queues held before the call.
C23_ClearEmptiesQueues ==
    [][(requests' = requests + 1)
        => /\ qr_queue' = << >>
           /\ entry_queue' = << >>
           /\ queue_indices' = << >>]_vars

\* the client's last call is the one call of clear_all_queues it made, after
\* it had added every token it may add and had popped and kept a QR item
C23_Witness ==
    /\ mon_pc = "clear_all_queues" /\ requests = 1
    /\ sensor_events = MaxTokenCalls /\ mon_item # << >>
    /\ qr_queue = << >> /\ entry_queue = << >> /\ queue_indices = << >>


(***************************************************************************)
(* Debounce of the gate and of the lane sensors                            *)
(***************************************************************************)
\* the step is the monitor sampling the gate, or lane i
GateSample == mon_pc = "entry" /\ MonitorStep
LaneSample(i) == mon_pc = "lane" /\ mon_i = i /\ MonitorStep

\* the sample is accepted: a token is added, or the lane's timer restarts
GateAccepted == GateSample /\ entry_queue' = add_entry_token(entry_queue)
LaneAccepted(i) == LaneSample(i) /\ last_s_trig'[i + 1] # last_s_trig[i + 1]

\* C24 (debounce): the gate and each lane have a timer of their own; a sample
\* taken at time t is accepted only if it is active (0) and t minus the time
\* of the input's last accepted sample is strictly greater than
\* sensor_debounce, and the timer then restarts at t; a sample that is not
\* accepted leaves the timer alone, and a sample of one input never changes
\* the timer of another.
C24_Debounce ==
    [][/\ GateAccepted =>
            /\ pin_states[PIN_ENTRY] = LOW
            /\ clock - last_entry_trigger_time > sensor_debounce
            /\ last_entry_trigger_time' = clock
       /\ ~GateAccepted => last_entry_trigger_time' = last_entry_trigger_time
       /\ GateSample => last_s_trig' = last_s_trig
       /\ \A i \in LaneIndices :
            /\ LaneAccepted(i) =>
                  /\ pin_states[lanes[i + 1].sensor_pin] = LOW
                  /\ clock - last_s_trig[i + 1] > sensor_debounce
                  /\ last_s_trig'[i + 1] = clock
            /\ ~LaneSample(i) => last_s_trig'[i + 1] = last_s_trig[i + 1]]_vars

\* the gate went low and its sample was accepted at the start; one unit of
\* time later, exactly sensor_debounce after it, the gate is still low and is
\* not accepted again, while the first lane's sensor went low and is accepted
C24_Witness ==
    /\ sensor_events = 2 /\ clock = StartTime + sensor_debounce
    /\ pin_states[PIN_ENTRY] = LOW /\ pin_states[lanes[1].sensor_pin] = LOW
    /\ last_entry_trigger_time = StartTime /\ Len(entry_queue) = 1
    /\ last_s_trig[1] = clock
    /\ mon_pc = "check"


(***************************************************************************)
(* Duplicate suppression of the recognition ingester                       *)
(***************************************************************************)
\* the canonical keys the detector can deliver
Keys == {canon_id(raw) : raw \in RawCodes}

\* the step is the ingester handling a decoded frame
ScanStep == qr_pc = "scan" /\ qr_pc' = "check"

\* C25 (duplicate suppression): a recognised key is accepted if and only if
\* it differs from the previously accepted key or more than the repeat window
\* (3 s) has passed since that acceptance.  An accepted key becomes the
\* previous key and restarts the window; a dropped one changes neither, and is
\* only ever dropped within the window.
C25_DuplicateSuppression ==
    /\ [](\A k \in Keys :
            scan_accepts(k, clock, last_qr_key, last_time)
                <=> (k # last_qr_key \/ clock - last_time > DedupWindow))
    /\ [][ScanStep =>
            \/ /\ Len(qr_queue') = Len(qr_queue) + 1
               /\ last_qr_key' = qr_queue'[Len(qr_queue')].qr_key
               /\ last_time' = clock
               /\ last_qr_key' # last_qr_key \/ clock - last_time > DedupWindow
            \/ /\ qr_queue' = qr_queue
               /\ last_qr_key' = last_qr_key /\ last_time' = last_time
               /\ clock - last_time <= DedupWindow]_vars

\* the same key was accepted twice, the second time more than the repeat
\* window after the first
C25_Witness ==
    /\ Len(qr_queue) = 2
    /\ qr_queue[1].qr_key = qr_queue[2].qr_key
    /\ qr_queue[2].timestamp - qr_queue[1].timestamp > DedupWindow
    /\ last_time = qr_queue[2].timestamp


(***************************************************************************)
(* Lock discipline                                                         *)
(***************************************************************************)
\* a thread is at an acquisition of state_lock made while it holds
\* state_lock itself: the lock is never released and the thread never runs
NestedStateLock == api_pc = "uc_state_lock"

\* C26 (lock discipline): no thread ever tries to acquire the state-store
\* lock while it already holds the state-store lock, so no reachable state has
\* a thread blocked for ever on a lock.
C26_NoNestedStateLock == ~NestedStateLock

\* the running system with every request handler scheduled
CommandFairSpec == CommandSpec /\ WF_vars(Commands)

\* C27 (config update completes): a config update that was received
\* eventually completes.
C27_ConfigUpdateCompletes == (api_pc = "uc_state_lock") ~> (api_pc = "idle")


(***************************************************************************)
(* User actions while maintenance is active                                *)
(***************************************************************************)
\* the step is the receipt of a request other than reset_maintenance
OtherRequest == requests' = requests + 1 /\ api_pc' # "rm_clear_qr"

\* C28 (user actions in maintenance): while maintenance is active, every user
\* action other than reset_maintenance is rejected and leaves the queues, the
\* counts, the statuses, the relay outputs, the pin levels and the
\* configuration unchanged.
C28_RejectedInMaintenance ==
    [][(is_maintenance /\ OtherRequest)
        => /\ api_response' = "refused" /\ api_pc' = "idle"
           /\ UNCHANGED << qr_queue, entry_queue, queue_indices, lanes,
                           pin_states, auto_test_enabled >>]_vars


(***************************************************************************)
(* Sensor reads that fail                                                  *)
(***************************************************************************)
\* the GPIO call of the step raised
ReadFailed == failures' = failures + 1

\* C29 (sensor_reading): a lane's sensor_reading equals the value returned by
\* the last successful read of the lane's sensor pin; a failed read leaves it
\* unchanged and makes maintenance active.
C29_SensorReadingIsLastRead ==
    [][\A i \in LaneIndices :
        (LaneSample(i) /\ lanes[i + 1].sensor_pin # NONE)
            => IF ReadFailed
               THEN /\ lanes'[i + 1].sensor_reading = lanes[i + 1].sensor_reading
                    /\ maintenance_mode'
               ELSE lanes'[i + 1].sensor_reading
                        = pin_states[lanes[i + 1].sensor_pin]]_vars


\* C30 (failed read ends the iteration): if the read of the gate sensor or of
\* a lane sensor fails, maintenance is triggered and the rest of the iteration
\* is skipped: the monitor is back at the top of its loop, without sampling a
\* further lane, accepting an edge or taking a match decision.
C30_FailedReadEndsIteration ==
    [][((GateSample \/ \E i \in LaneIndices : LaneSample(i)) /\ ReadFailed)
        => /\ maintenance_mode'
           /\ mon_pc' = "check"
           /\ UNCHANGED << qr_queue, entry_queue, tasks, last_s_trig >>]_vars


(***************************************************************************)
(* The four-phase piston cycle                                             *)
(***************************************************************************)
\* the relay is energised
RelayOn(pin) == pin_states[pin] = relay_level("on")

\* the piston cycle at position k has made its first relay call and has
\* not ended
InPistonCycle(k) == tasks[k].pc \in {"push_on", "push_off", "pull_on"}

\* the relay call a running piston cycle makes when it leaves phase pc
PhaseCall(pc, push_pin, pull_pin, mode) ==
    CASE pc = "submitted" -> relay_call("off", pull_pin, mode)
      [] pc = "push_on" -> relay_call("on", push_pin, mode)
      [] pc = "push_off" -> relay_call("off", push_pin, mode)
      [] pc = "pull_on" -> relay_call("on", pull_pin, mode)

\* C31: a successful piston cycle on a sorting lane makes exactly the relay
\* calls relay_off(pull_pin), relay_on(push_pin), relay_off(push_pin),
\* relay_on(pull_pin), one per phase in this order; while a cycle is between
\* its first and its last call the push relay is never on together with the
\* pull relay; and the step that completes the cycle leaves relay_push = 0
\* and relay_grab = 1 in the state store.
C31_PistonCycle ==
    /\ [][\A k \in 1..Len(tasks) :
            LET lane == lanes[tasks[k].lane_index + 1]
            IN  (CycleStep(k) /\ main_running /\ lane.push_pin # NONE)
                    => relay_calls' = PhaseCall(tasks[k].pc, lane.push_pin,
                                                lane.pull_pin, maintenance_mode)]_vars
    /\ [](\A k \in 1..Len(tasks) :
            InPistonCycle(k)
                => ~(RelayOn(tasks[k].push_pin) /\ RelayOn(tasks[k].pull_pin)))
    /\ [][\A i \in LaneIndices :
            (SuccessfulCompletion(i) /\ lanes[i + 1].push_pin # NONE)
                => /\ lanes'[i + 1].relay_push = 0
                   /\ lanes'[i + 1].relay_grab = 1]_vars



(***************************************************************************)
(* State export                                                            *)
(***************************************************************************)
\* the step ends an iteration of the monitor: the export of step 5 was made
IterationEnds == mon_pc # "check" /\ mon_pc' = "check"

\* C32: after each monitor iteration outside maintenance the state store
\* holds, in a slot at index N (N the number of real lanes), the current
\* token-queue length and the latest reading of the gate sensor.
C32_EntrySlotExported ==
    [][(IterationEnds /\ ~maintenance_mode')
        => LET N == Len(LanesCfg)
           IN  /\ Len(lanes') > N
               /\ lanes'[N + 1].entry_token_count = get_entry_queue_length(entry_queue')
               /\ lanes'[N + 1].sensor_reading = pin_states'[PIN_ENTRY]]_vars



(***************************************************************************)
(* Ingestion with a code that names no lane                                *)
(***************************************************************************)
\* strings the detector can decode when an unknown label passes the camera
IngestCodes == RawCodes \cup {"x-9"}

Ingest_Scan == Qr_Decoded(IngestCodes, scans + 1)

IngestNext ==
    \/ SensorMon \/ Qr_Check \/ Ingest_Scan \/ Executor
    \/ SetSensor \/ Tick

IngestSpec == Init /\ [][IngestNext]_vars

\* the step is scan_frame returning a recognition: the repeat filter let the
\* code through and recorded its key and its time
Recognised ==
    ScanStep /\ << last_qr_key, last_time >>' # << last_qr_key, last_time >>

\* C33: an accepted recognition whose key is the canonical form of no lane
\* id changes neither the QR queue nor any lane status; one whose key is
\* canon_id(lane.id) of a lane appends exactly one item to the back of the QR
\* queue, with that lane's index and that lane's id, and sets that lane's
\* status to WaitingForItem.
C33_Ingestion ==
    [][Recognised
        => LET key == last_qr_key'
               hits == {k \in 1..Len(lanes) : canon_id(lanes[k].id) = key}
           IN  IF hits = {}
               THEN qr_queue' = qr_queue /\ Statuses' = Statuses
               ELSE /\ Len(qr_queue') = Len(qr_queue) + 1
                    /\ SubSeq(qr_queue', 1, Len(qr_queue)) = qr_queue
                    /\ \E k \in hits :
                        /\ qr_queue'[Len(qr_queue')].lane_index = k - 1
                        /\ qr_queue'[Len(qr_queue')].lane_id = lanes[k].id
                        /\ lanes'[k].status = "WaitingForItem"]_vars

\* a code for lane D was queued, then an unknown code was recognised and
\* dropped
C33_Witness ==
    /\ scans = 2 /\ last_qr_key = "X9" /\ qr_pc = "check"
    /\ Len(qr_queue) = 1
    /\ qr_queue[1].lane_index = 1 /\ qr_queue[1].lane_id = "D"
    /\ lanes[2].status = "WaitingForItem"



(***************************************************************************)
(* The projection of the QR queue in the state store                       *)
(***************************************************************************)
\* C34: whenever the QR-queue lock is free, queue_indices in the state
\* store is the list of the lane_index values of the QR queue in queue
\* order: every mutation of the queue (push back, push front, pop by lane,
\* head timeout, clear) has written it before releasing the lock.
C34_IndicesMirrorQueue ==
    /\ Len(queue_indices) = Len(qr_queue)
    /\ \A k \in 1..Len(qr_queue) : queue_indices[k] = qr_queue[k].lane_index

\* an item of lane D was popped from behind an item of lane A and returned
\* to the front, with another item of lane D behind them
C34_Witness ==
    /\ mon_pc = "add_qr_item_at_head"
    /\ queue_indices = << 1, 0, 1 >>
    /\ Len(qr_queue) = 3



(***************************************************************************)
(* Tokens and gate activations                                             *)
(***************************************************************************)
\* the only level change so far took the gate sensor to 0: one item has
\* been standing at the gate since, and no lane sensor has seen anything
FirstGateActivation == sensor_events = 1 /\ pin_states[PIN_ENTRY] = LOW

\* C35: one physical gate activation yields at most one token: a token is
\* added only on a 1-to-0 transition of the gate reading, so while the gate
\* sensor stays at 0, for however long, the token count is raised once.
C35_OneTokenPerActivation ==
    FirstGateActivation => get_entry_queue_length(entry_queue) <= 1



(***************************************************************************)
(* Cycles and consumed tokens                                              *)
(***************************************************************************)
\* the step hands a cycle to the executor
CycleSubmitted == Len(tasks') = Len(tasks) + 1

\* the step is a call of consume_entry_token by the monitor that returns
\* True
TokenConsumed ==
    /\ mon_pc \in {"consume", "pt_consume"} /\ MonitorStep
    /\ consume_entry_token(entry_queue).ok

\* C36: every sort or pass-through cycle the monitor submits is paired with
\* exactly one successful token consumption: a step submits a cycle exactly
\* when it is a consume_entry_token call that returns True, so in every
\* reachable state as many cycles were submitted as tokens consumed, also
\* when clear_all_queues runs between the monitor's is_entry_queue_empty
\* test and its consume_entry_token call.
C36_CyclePerToken ==
    [][CycleSubmitted <=> TokenConsumed]_vars



(***************************************************************************)
(* A queue reset racing with the monitor: the line with a provider that    *)
(* never raises and an operator whose only request is POST /api/queue/reset*)
(***************************************************************************)
RaceNext ==
    \/ SensorMon \/ QRScannerLogic \/ Executor
    \/ Api_QueueReset \/ Api_ClearQr \/ Api_ClearEntry
    \/ SetSensor \/ Tick

RaceSpec == CountInit /\ [][RaceNext]_vars

\* the monitor thread and the request handler are scheduled
RaceFairSpec ==
    RaceSpec /\ WF_vars(SensorMon) /\ WF_vars(Api_ClearQr \/ Api_ClearEntry)

\* the QR items the ingester can build
Items ==
    {queue_item(initialize_lanes(LanesCfg), i, t) :
        i \in LaneIndices, t \in StartTime..MaxTime}

InQrQueue(x) == \E k \in 1..Len(qr_queue) : qr_queue[k] = x

\* x was enqueued and no clear_all_queues call has begun
EnqueuedBeforeReset(x) == requests = 0 /\ InQrQueue(x)

\* the clear_all_queues call of the queue reset has returned
ResetReturned == requests > 0 /\ api_pc = "idle"

\* C37: once clear_all_queues has returned, no QR item that was enqueued
\* before the call began is ever again present in the QR queue, also when
\* the monitor was in the middle of a false-trigger sequence
\* (pop_qr_by_index, failed consume_entry_token, add_qr_item_at_head).
C37_ClearedItemsStayGone ==
    \A x \in Items :
        [](EnqueuedBeforeReset(x) => [](ResetReturned => ~InQrQueue(x)))



(***************************************************************************)
(* The monitor during a maintenance reset                                  *)
(***************************************************************************)
\* reset_maintenance has cleared the maintenance flag and has not yet
\* cleared both queues
ResetWindow == api_pc \in {"rm_clear_qr", "rm_clear_entry"}

\* the monitor takes a QR item out of the queue (match or head timeout),
\* consumes a token or submits a cycle
MonitorUsesQueues ==
    /\ MonitorStep
    /\ \/ Len(qr_queue') < Len(qr_queue)
       \/ Len(entry_queue') < Len(entry_queue)
       \/ CycleSubmitted

\* C38: between the moment reset_maintenance clears the maintenance flag and
\* the moment it has cleared both queues the monitor does not match, consume
\* or time out any item, so no sort decision made after the reset uses a QR
\* item or a token queued before it.
C38_NoDecisionDuringReset ==
    [][ResetWindow => ~MonitorUsesQueues]_vars



(***************************************************************************)
(* Edge-detection state and the lane list                                  *)
(***************************************************************************)
\* the commands of CommandSpec with a monitor thread that is scheduled
ConfigFairSpec == CommandSpec /\ WF_vars(SensorMon)

\* last_s_state and last_s_trig have one slot per lane of the lane list
SlotPerLane ==
    /\ Len(last_s_state) = Len(lanes)
    /\ Len(last_s_trig) = Len(lanes)

\* C39: the monitor's per-lane edge-detection state (last level, last
\* accepted time) always has exactly one slot per lane of the current lane
\* list, also after a config update, so every iteration of the monitor gets
\* through every configured lane: an iteration that has begun ends.
C39_MonitorCoversLanes ==
    /\ []SlotPerLane
    /\ (mon_pc = "entry") ~> (mon_pc = "check")



(***************************************************************************)
(* stop() while cycles are with the executor: the item traffic with a      *)
(* provider that never raises, and stop()                                  *)
(***************************************************************************)
StopNext == TrafficNext \/ Stop

StopSpec == CountInit /\ [][StopNext]_vars

\* the cycle at position k waits before its first phase or between two
\* phases
WaitingCycle(k) ==
    tasks[k].pc \in {"submitted", "push_on", "push_off", "pull_on"}

\* C40: if the running flag is cleared while a sort cycle waits before or
\* between phases, the cycle's next step ends it: it makes no relay call,
\* moves no relay pin and no count, so the phase it had started is the last
\* one performed; a cycle stopped after its push-on phase leaves
\* relay_push = 1 in the state store.
C40_StoppedCycle ==
    [][\A k \in 1..Len(tasks) :
        (CycleStep(k) /\ ~main_running /\ WaitingCycle(k))
            => /\ tasks' = RemoveAt(tasks, k)
               /\ relay_calls' = << >>
               /\ RelayOutputs' = RelayOutputs
               /\ Counts' = Counts
               /\ tasks[k].pc = "push_off"
                    => lanes'[tasks[k].lane_index + 1].relay_push = 1]_vars

====
